---- MODULE Spec2Model ----
(***************************************************************************)
(* The unit-aware calculation dispatch of meteorology_analyzer:            *)
(*   src/tools/metpy_wrapper.py  (column resolver, filler, vectorized      *)
(*                                invoker, row-wise fallback, result       *)
(*                                writer, compute_with_metpy)              *)
(*   src/tools/metpy_calcs.py    (tool catalog, tool wrappers)             *)
(*                                                                         *)
(* Encoding.  A Python str is a TLA+ string; where the code looks inside a *)
(* string (lower(), the `in` substring test) the string's characters are   *)
(* given by Chars, one token per character: an ASCII character is itself,  *)
(* any other character is "uXXXX", its code point.  A Python value is a    *)
(* triple <<tag, number, text>>; a dict is the sequence of its             *)
(* <<key, value>> items in insertion order.                                *)
(***************************************************************************)
EXTENDS Integers, Sequences, FiniteSets, TLC

VARIABLES
    env,            \* what can be imported in this process
    _TOOLS_CACHE,   \* metpy_calcs._TOOLS_CACHE
    gen,            \* how the last generate_all_tools() call ended
    held,           \* MeteorologyAgent.tools: the dict the last agent built holds
    probe,          \* a direct call of a helper function of metpy_wrapper
    call,           \* the arguments of the last dispatch call
    lib,            \* what the calculation library did during that call
    trace,          \* which statements of compute_with_metpy that call ran
    ret,            \* how that call ended: an outcome dict or an exception
    callers         \* threads inside generate_all_tools(), statement by statement

vars == <<env, _TOOLS_CACHE, gen, held, probe, call, lib, trace, ret, callers>>

-----------------------------------------------------------------------------
(* Bounds of the model *)

MaxRecords == 2

\* the most agents constructed in one process
MaxAgents == 2

\* the most columns of a column list handed to build_column_map directly
MaxColumns == 2
MaxCallers == 2
MaxCalls == 2

-----------------------------------------------------------------------------
(* Python values *)

Num(n)  == <<"num", n, "">>
Text(s) == <<"str", 0, s>>
IsNum(v) == v[1] = "num"

\* dict as an ordered sequence of items
Keys(d) == [j \in 1..Len(d) |-> d[j][1]]
Has(d, k) == \E j \in 1..Len(d) : d[j][1] = k
Get(d, k) == d[CHOOSE j \in 1..Len(d) : d[j][1] = k][2]
\* d[k] = v: an existing key keeps its position, a new key goes last
Put(d, k, v) ==
    IF Has(d, k)
    THEN [j \in 1..Len(d) |-> IF d[j][1] = k THEN <<k, v>> ELSE d[j]]
    ELSE Append(d, <<k, v>>)

\* an element of the records list: a mapping, or some other object
Dict(items) == [isdict |-> TRUE, items |-> items]
NotADict    == [isdict |-> FALSE, items |-> <<>>]

-----------------------------------------------------------------------------
(* Characters of the strings the column resolver looks into *)

Chars(s) ==
    CASE s = "wendu"            -> <<"u6E29", "u5EA6">>                          \* 温度
      [] s = "xiangduishidu"    -> <<"u76F8", "u5BF9", "u6E7F", "u5EA6">>        \* 相对湿度
      [] s = "gaodu"            -> <<"u9AD8", "u5EA6">>                          \* 高度
      [] s = "qiwen"            -> <<"u6C14", "u6E29">>                          \* 气温
      [] s = "PHI_Z"            -> <<"u03A6", "Z">>                              \* ΦZ
      [] s = "qiya_HPA"         -> <<"u6C14", "u538B", "(", "H", "P", "A", ")">> \* 气压(HPA)
      [] s = "vapor_pressure"   -> <<"v", "a", "p", "o", "r", "_", "p", "r", "e", "s", "s", "u", "r", "e">>
      [] s = "dewpoint_result"  -> <<"d", "e", "w", "p", "o", "i", "n", "t", "_", "r", "e", "s", "u", "l", "t">>
      [] s = "dewpoint_error"   -> <<"d", "e", "w", "p", "o", "i", "n", "t", "_", "e", "r", "r", "o", "r">>
      [] s = "height"           -> <<"h", "e", "i", "g", "h", "t">>
      [] s = "temperature"      -> <<"t", "e", "m", "p", "e", "r", "a", "t", "u", "r", "e">>
      [] s = "td"               -> <<"t", "d">>
      [] s = ""                 -> <<>>

\* str.lower(), character by character
LowerChar(c) ==
    CASE c = "H" -> "h"
      [] c = "P" -> "p"
      [] c = "A" -> "a"
      [] c = "Z" -> "z"
      [] c = "u03A6" -> "u03C6"      \* Φ -> φ
      [] OTHER -> c

Lower(cs) == [j \in 1..Len(cs) |-> LowerChar(cs[j])]

\* a in b, for strings given by their characters
IsSubstring(a, b) ==
    \E k \in 0..(Len(b) - Len(a)) : \A j \in 1..Len(a) : b[k + j] = a[j]

-----------------------------------------------------------------------------
(* DEFAULT_SCHEMA, in declaration order; aliases by their characters *)

DEFAULT_SCHEMA == <<
    [canonical |-> "temperature", unit |-> "degC",
     aliases |-> << <<"u6C14", "u6E29">>,                                   \* 气温
                    <<"u6E29", "u5EA6">>,                                   \* 温度
                    <<"u6C14", "u6E29", "(", "u2103", ")">> >>],            \* 气温(℃)
    [canonical |-> "relative_humidity", unit |-> "percent",
     aliases |-> << <<"u76F8", "u5BF9", "u6E7F", "u5EA6">>,                 \* 相对湿度
                    <<"u6E7F", "u5EA6">>,                                   \* 湿度
                    <<"u76F8", "u5BF9", "u6E7F", "u5EA6", "(", "%", ")">> >>],
    [canonical |-> "pressure", unit |-> "hPa",
     aliases |-> << <<"u6C14", "u538B">>,                                   \* 气压
                    <<"u6C14", "u538B", "(", "h", "P", "a", ")">> >>],      \* 气压(hPa)
    [canonical |-> "dewpoint", unit |-> "degC",
     aliases |-> << <<"u9732", "u70B9">>,                                   \* 露点
                    <<"u9732", "u70B9", "u6E29", "u5EA6", "(", "u2103", ")">> >>],  \* 露点温度(℃)
    [canonical |-> "wind_speed", unit |-> "m/s",
     aliases |-> << <<"u98CE", "u901F">>,                                   \* 风速
                    <<"u98CE", "u901F", "(", "m", "/", "s", ")">> >>],
    [canonical |-> "wind_direction", unit |-> "degree",
     aliases |-> << <<"u98CE", "u5411">>,                                   \* 风向
                    <<"u98CE", "u5411", "(", "u00B0", ")">> >>],
    [canonical |-> "specific_humidity", unit |-> "kg/kg",
     aliases |-> << <<"u6BD4", "u6E7F">>,                                   \* 比湿
                    <<"u6BD4", "u6E7F", "(", "g", "/", "k", "g", ")">> >>],
    [canonical |-> "mixing_ratio", unit |-> "kg/kg",
     aliases |-> << <<"u6DF7", "u5408", "u6BD4">>,                          \* 混合比
                    <<"u6DF7", "u5408", "u6BD4", "(", "g", "/", "k", "g", ")">> >>],
    [canonical |-> "height", unit |-> "meter",
     aliases |-> << <<"u9AD8", "u5EA6">>,                                   \* 高度
                    <<"u6D77", "u62D4">>,                                   \* 海拔
                    <<"u9AD8", "u5EA6", "(", "m", ")">> >>],
    [canonical |-> "geopotential_height", unit |-> "meter",
     aliases |-> << <<"u4F4D", "u52BF", "u9AD8", "u5EA6">>,                 \* 位势高度
                    <<"u03A6", "z">> >>] >>                                 \* Φz

-----------------------------------------------------------------------------
(* build_column_map *)

\* lowcols = {c.lower(): c for c in columns}: items <<lowered characters, column>>
RECURSIVE LowCols(_)
LowCols(columns) ==
    IF columns = <<>> THEN <<>>
    ELSE LET c == columns[Len(columns)]
         IN  Put(LowCols(SubSeq(columns, 1, Len(columns) - 1)), Lower(Chars(c)), c)

\* the inner loop: the first column the alias matches, <<>> when there is none
MatchAlias(a, lowcols) ==
    LET hit(j) == \/ a = lowcols[j][1]
                  \/ IsSubstring(a, lowcols[j][1])
                  \/ IsSubstring(lowcols[j][1], a)
        hits == {j \in 1..Len(lowcols) : hit(j)}
    IN  IF hits = {} THEN <<>>
        ELSE <<lowcols[CHOOSE j \in hits : \A k \in hits : j <= k][2]>>

\* `if found`: None and the empty string are falsy
IsFound(found) == found # <<>> /\ found[1] # ""

\* `found = col` on a match; no match leaves `found` as it was
KeepFound(found, m) == IF m = <<>> THEN found ELSE m

\* `if found: colmap[canonical] = found`
BindFound(canonical, found, rest) ==
    IF IsFound(found) THEN <<<<canonical, found[1]>>>> \o rest ELSE rest

\* the alias loop from alias k on: `found` after the loop
RECURSIVE FindColumn(_, _, _, _)
FindColumn(aliases, k, lowcols, found) ==
    IF k > Len(aliases) \/ IsFound(found) THEN found
    ELSE FindColumn(aliases, k + 1, lowcols,
                    KeepFound(found, MatchAlias(Lower(aliases[k]), lowcols)))

\* colmap as a dict canonical -> column, in schema order
RECURSIVE ColumnMapFrom(_, _, _)
ColumnMapFrom(schema, k, lowcols) ==
    IF k > Len(schema) THEN <<>>
    ELSE BindFound(schema[k].canonical, FindColumn(schema[k].aliases, 1, lowcols, <<>>),
                   ColumnMapFrom(schema, k + 1, lowcols))

build_column_map(columns) == ColumnMapFrom(DEFAULT_SCHEMA, 1, LowCols(columns))

-----------------------------------------------------------------------------
(* The calculation library (metpy.calc), as the dispatch sees it: which names *)
(* it has (hasattr), which parameters each declares (inspect.signature), and  *)
(* what a call does.  What a call computes from its data is not the           *)
(* dispatch's business: it is given by `lib`, chosen freely for each call.    *)

LibraryFunctions ==
    {"dewpoint", "dewpoint_from_relative_humidity", "cape_cin", "pressure_to_height_std"}

Signature(f) ==
    CASE f = "dewpoint" -> <<"vapor_pressure">>
      [] f = "dewpoint_from_relative_humidity" -> <<"temperature", "relative_humidity">>
      [] f = "cape_cin" -> <<"pressure", "temperature", "dewpoint", "parcel_profile",
                             "which_lfc", "which_el">>
      [] f = "pressure_to_height_std" -> <<"pressure">>

\* the parameters without a default
Required(f) ==
    CASE f = "dewpoint" -> {"vapor_pressure"}
      [] f = "dewpoint_from_relative_humidity" -> {"temperature", "relative_humidity"}
      [] f = "cape_cin" -> {"pressure", "temperature", "dewpoint", "parcel_profile"}
      [] f = "pressure_to_height_std" -> {"pressure"}

Range(s) == {s[j] : j \in 1..Len(s)}

\* func(**kwargs) binds its arguments before it runs: a keyword the function
\* does not declare, or a required parameter left out, is a TypeError
BindError(f, kwargs) ==
    IF \E k \in Range(Keys(kwargs)) : k \notin Range(Signature(f))
    THEN "TypeError: unexpected keyword argument"
    ELSE IF \E p \in Required(f) : ~Has(kwargs, p)
    THEN "TypeError: missing required argument"
    ELSE ""

NaN   == <<"nan", 0, "">>
NoneV == <<"none", 0, "">>

\* results of a call; unit is str(result.units) where the code reads it
Raises(msg)   == [kind |-> "raise",  msg |-> msg, vals |-> <<>>,  vals2 |-> <<>>, unit |-> ""]
ArrayOf(vals) == [kind |-> "array",  msg |-> "",  vals |-> vals,  vals2 |-> <<>>, unit |-> ""]
ScalarOf(v)   == [kind |-> "scalar", msg |-> "",  vals |-> <<v>>, vals2 |-> <<>>, unit |-> ""]
PairOf(a, b)  == [kind |-> "pair",   msg |-> "",  vals |-> a,     vals2 |-> b,    unit |-> ""]
NonNumeric    == [kind |-> "object", msg |-> "",  vals |-> <<>>,  vals2 |-> <<>>, unit |-> ""]
NoResult      == [kind |-> "none",   msg |-> "",  vals |-> <<>>,  vals2 |-> <<>>, unit |-> ""]

\* a result that is a quantity in kelvin
InKelvin(result) == [result EXCEPT !.unit = "kelvin"]

\* kelvin to degrees Celsius, on whole numbers (273.15 in the unit registry)
KelvinOffset == 273

\* result.to(units.degC).magnitude, value by value
ToCelsius(vals) ==
    [j \in 1..Len(vals) |->
        IF IsNum(vals[j]) THEN Num(vals[j][2] - KelvinOffset) ELSE vals[j]]

\* Magnitude without the conversion: result.magnitude whatever the unit
Magnitude_Raw(result) == result

\* the magnitude taken from a result: of the result converted to degrees
\* Celsius when str(result.units).lower() starts with "kelvin"
Magnitude(result) ==
    IF result.unit = "kelvin"
    THEN [result EXCEPT !.vals = ToCelsius(result.vals), !.unit = "degC"]
    ELSE result

-----------------------------------------------------------------------------
(* _fill_missing_params: params is a dict name -> value, `fails` the targets  *)
(* whose derivation raises inside the library                                 *)

Derived(target) == <<"derived", 0, target>>

FillRule_Overwrites(params, target, applicable, fails) ==
    IF applicable /\ target \notin fails
    THEN Put(params, target, Derived(target))
    ELSE params

FillRule(params, target, applicable, fails) ==
    IF ~Has(params, target) /\ applicable /\ target \notin fails
    THEN Put(params, target, Derived(target))
    ELSE params

FillDewpoint(params, fails) ==
    FillRule(params, "dewpoint",
        \/ Has(params, "temperature") /\ Has(params, "relative_humidity")
        \/ Has(params, "temperature") /\ Has(params, "specific_humidity")
              /\ Has(params, "pressure"),
        fails)

FillMixingRatio(params, fails) ==
    FillRule(params, "mixing_ratio",
        \/ Has(params, "specific_humidity")
        \/ Has(params, "pressure") /\ Has(params, "temperature")
              /\ Has(params, "relative_humidity")
        \/ Has(params, "pressure") /\ Has(params, "dewpoint"),
        fails)

FillPressure(params, fails) ==
    FillRule(params, "pressure",
        Has(params, "height") \/ Has(params, "geopotential_height"),
        fails)

FillParcelProfile(params, fails) ==
    FillRule(params, "parcel_profile",
        Has(params, "pressure") /\ Has(params, "temperature") /\ Has(params, "dewpoint"),
        fails)

_fill_missing_params_OneTry(params, fails) ==
    IF /\ "dewpoint" \in fails /\ ~Has(params, "dewpoint")
       /\ Has(params, "temperature") /\ Has(params, "relative_humidity")
    THEN params
    ELSE FillParcelProfile(
             FillPressure(FillMixingRatio(FillDewpoint(params, fails), fails), fails),
             fails)

_fill_missing_params(params, fails) ==
    FillParcelProfile(
        FillPressure(FillMixingRatio(FillDewpoint(params, fails), fails), fails),
        fails)

-----------------------------------------------------------------------------
(* normalize_units and prepare_quantities: one quantity array per bound       *)
(* canonical field.  rec.get on an element that is no mapping raises.         *)

ColumnQuantity(canonical) == <<"qty", 0, canonical>>

normalize_raises(records, colmap) ==
    colmap # <<>> /\ \E j \in 1..Len(records) : ~records[j].isdict

\* `> 0.01`: the share of records above which a field gets a warning, in percent
WarnPercent == 1

\* bad_count > 0 and (bad_count / max(1, n)) > 0.01, n = len(data_dicts)
RangeWarning(n, bad_count) ==
    bad_count > 0 /\ bad_count * 100 > WarnPercent * (IF n > 1 THEN n ELSE 1)

\* the warnings of normalize_units, one canonical name per warning, for n
\* records and the fields of colmap from k on; counts[k].bad is the number of
\* values of field k outside its range (not-a-number compares false)
RECURSIVE RangeWarnings(_, _, _, _)
RangeWarnings(fields, counts, n, k) ==
    IF k > Len(fields) THEN <<>>
    ELSE (IF RangeWarning(n, counts[k].bad) THEN <<fields[k]>> ELSE <<>>)
         \o RangeWarnings(fields, counts, n, k + 1)

prepare_quantities(colmap) ==
    [j \in 1..Len(colmap) |-> <<colmap[j][1], ColumnQuantity(colmap[j][1])>>]

-----------------------------------------------------------------------------
(* call_metpy_function_vectorized: returns [res, err, raised]                 *)

\* extra_kwargs is [none |-> BOOLEAN, items |-> dict]; `extra_kwargs and ...`
Truthy(extra_kwargs) == ~extra_kwargs.none /\ extra_kwargs.items # <<>>

\* CallArgs that asks extra_kwargs before the quantities
RECURSIVE CallArgs_ExtraFirst(_, _, _, _)
CallArgs_ExtraFirst(params, k, quantities, extra_kwargs) ==
    IF k > Len(params) THEN <<>>
    ELSE (IF Truthy(extra_kwargs) /\ Has(extra_kwargs.items, params[k])
          THEN <<<<params[k], Get(extra_kwargs.items, params[k])>>>>
          ELSE IF Has(quantities, params[k])
          THEN <<<<params[k], Get(quantities, params[k])>>>>
          ELSE <<>>)
         \o CallArgs_ExtraFirst(params, k + 1, quantities, extra_kwargs)

RECURSIVE CallArgs(_, _, _, _)
CallArgs(params, k, quantities, extra_kwargs) ==
    IF k > Len(params) THEN <<>>
    ELSE (IF Has(quantities, params[k])
          THEN <<<<params[k], Get(quantities, params[k])>>>>
          ELSE IF Truthy(extra_kwargs) /\ Has(extra_kwargs.items, params[k])
          THEN <<<<params[k], Get(extra_kwargs.items, params[k])>>>>
          ELSE <<>>)
         \o CallArgs(params, k + 1, quantities, extra_kwargs)

\* `return None, str(e)` of the except branch
VectorizedFailure(msg) == [res |-> NoResult, err |-> msg, raised |-> TRUE]

\* res = func(**call_args), bind being the outcome of binding the arguments
InvokeVectorized(bind, l) ==
    IF bind # "" THEN VectorizedFailure(bind)
    ELSE IF l.vec.kind = "raise" THEN VectorizedFailure(l.vec.msg)
    ELSE [res |-> l.vec, err |-> "", raised |-> FALSE]

call_metpy_function_vectorized(func_name, quantities, extra_kwargs, l) ==
    IF func_name \notin LibraryFunctions
    THEN [res |-> NoResult, err |-> "MetPy has no function " \o func_name, raised |-> FALSE]
    ELSE InvokeVectorized(
             BindError(func_name,
                       CallArgs(Signature(func_name), 1,
                                _fill_missing_params(quantities, l.fill), extra_kwargs)),
             l)

-----------------------------------------------------------------------------
(* Outcome dicts.  `keys` is the set of keys the dict has; the field of an    *)
(* absent key holds a filler.                                                 *)

NoStats == [keys |-> {}, sum |-> 0, count |-> 0, min |-> 0, max |-> 0]

\* {"mean": sum(vals)/len(vals), "count": len(vals)}; mean is sum / count
MeanCount(vals) ==
    IF vals.count = 0 THEN NoStats
    ELSE [keys |-> {"mean", "count"}, sum |-> vals.sum, count |-> vals.count,
          min |-> 0, max |-> 0]

MeanMinMaxCount(vals) ==
    IF vals.count = 0 THEN NoStats
    ELSE [keys |-> {"mean", "min", "max", "count"}, sum |-> vals.sum,
          count |-> vals.count, min |-> vals.min, max |-> vals.max]

NoOutcome ==
    [keys |-> {}, status |-> "", message |-> "", processed |-> <<>>,
     stats |-> NoStats, result_field |-> ""]

Returned(outcome) == [kind |-> "return", outcome |-> outcome, exc |-> ""]
Raised(text)      == [kind |-> "raise",  outcome |-> NoOutcome, exc |-> text]
NotCalled         == [kind |-> "none",   outcome |-> NoOutcome, exc |-> ""]

\* Accumulate without the test for a number: every value is counted
Accumulate_CountsAll(r, v) ==
    [sum   |-> r.sum + (IF IsNum(v) THEN v[2] ELSE 0),
     count |-> r.count + 1,
     min   |-> r.min,
     max   |-> r.max]

\* one more value into a summary [sum, count, min, max] of numbers
Accumulate(r, v) ==
    IF ~IsNum(v) THEN r
    ELSE [sum   |-> r.sum + v[2],
          count |-> r.count + 1,
          min   |-> IF r.count = 0 \/ v[2] < r.min THEN v[2] ELSE r.min,
          max   |-> IF r.count = 0 \/ v[2] > r.max THEN v[2] ELSE r.max]

\* sum, count, min and max of the numbers among the first k of a sequence of values
RECURSIVE Summary(_, _)
Summary(vs, k) ==
    IF k = 0 THEN [sum |-> 0, count |-> 0, min |-> 0, max |-> 0]
    ELSE Accumulate(Summary(vs, k - 1), vs[k])

-----------------------------------------------------------------------------
(* postprocess_result_to_records: returns [raised, recs]                      *)

\* Reconcile without the broadcast of a single-element array
Reconcile_PadsSingle(result, n) ==
    IF result.kind = "scalar" THEN [j \in 1..n |-> result.vals[1]]
    ELSE IF result.kind = "array"
    THEN [j \in 1..n |-> IF j <= Len(result.vals) THEN result.vals[j] ELSE NaN]
    ELSE [j \in 1..n |-> NaN]

\* arr after length reconciliation: n values
Reconcile(result, n) ==
    IF result.kind = "scalar" THEN [j \in 1..n |-> result.vals[1]]
    ELSE IF result.kind = "array"
    THEN IF Len(result.vals) = n THEN result.vals
         ELSE IF Len(result.vals) = 1 THEN [j \in 1..n |-> result.vals[1]]
         ELSE [j \in 1..n |-> IF j <= Len(result.vals) THEN result.vals[j] ELSE NaN]
    ELSE [j \in 1..n |-> NaN]      \* arr.shape[0] raises: np.full(n, nan)

\* WriteValue without `rec2 = dict(rec)`: the output record holds the result
\* column alone
WriteValue_NoCopy(rec, out_col, val) ==
    Dict(<< <<out_col, IF val = NaN THEN NoneV ELSE val>> >>)

\* rec2[out_col] = None if isnan(val) else float(val)
WriteValue(rec, out_col, val) ==
    Dict(Put(rec.items, out_col, IF val = NaN THEN NoneV ELSE val))

WriteRecords(arr, records, out_col) ==
    IF \E j \in 1..Len(records) : ~records[j].isdict
    THEN [raised |-> TRUE, recs |-> <<>>]        \* dict(rec) raises TypeError
    ELSE [raised |-> FALSE,
          recs |-> [j \in 1..Len(records) |-> WriteValue(records[j], out_col, arr[j])]]

postprocess_result_to_records(result, records, out_col) ==
    WriteRecords(Reconcile(Magnitude(result), Len(records)), records, out_col)

\* vals = [rec[col] for rec in processed if rec.get(col) is not None]
ColumnValues(processed, col) ==
    [j \in 1..Len(processed) |->
        IF Has(processed[j].items, col) THEN Get(processed[j].items, col) ELSE NoneV]

StatsOf(processed, col) ==
    MeanMinMaxCount(Summary(ColumnValues(processed, col), Len(processed)))

-----------------------------------------------------------------------------
(* The row-wise fallback of compute_with_metpy, one record                    *)

\* RowKwargs that looks in the column map before the record's own keys
RECURSIVE RowKwargs_ColumnMapFirst(_, _, _, _, _)
RowKwargs_ColumnMapFirst(params, k, rec, colmap, extra_kwargs) ==
    IF k > Len(params) THEN <<>>
    ELSE (IF Has(colmap, params[k]) /\ Has(rec, Get(colmap, params[k]))
          THEN <<<<params[k], Get(rec, Get(colmap, params[k]))>>>>
          ELSE IF Has(rec, params[k])
          THEN <<<<params[k], Get(rec, params[k])>>>>
          ELSE IF Truthy(extra_kwargs) /\ Has(extra_kwargs.items, params[k])
          THEN <<<<params[k], Get(extra_kwargs.items, params[k])>>>>
          ELSE <<>>)
         \o RowKwargs_ColumnMapFirst(params, k + 1, rec, colmap, extra_kwargs)

\* the kwargs loop over the function's parameters
RECURSIVE RowKwargs(_, _, _, _, _)
RowKwargs(params, k, rec, colmap, extra_kwargs) ==
    IF k > Len(params) THEN <<>>
    ELSE (IF Has(rec, params[k])
          THEN <<<<params[k], Get(rec, params[k])>>>>
          ELSE IF Has(colmap, params[k]) /\ Has(rec, Get(colmap, params[k]))
          THEN <<<<params[k], Get(rec, Get(colmap, params[k]))>>>>
          ELSE IF Truthy(extra_kwargs) /\ Has(extra_kwargs.items, params[k])
          THEN <<<<params[k], Get(extra_kwargs.items, params[k])>>>>
          ELSE <<>>)
         \o RowKwargs(params, k + 1, rec, colmap, extra_kwargs)

\* schema.get(k, {}).get("unit")
SchemaUnit(k) ==
    IF \E j \in 1..Len(DEFAULT_SCHEMA) : DEFAULT_SCHEMA[j].canonical = k
    THEN DEFAULT_SCHEMA[CHOOSE j \in 1..Len(DEFAULT_SCHEMA) :
                            DEFAULT_SCHEMA[j].canonical = k].unit
    ELSE ""

\* a number whose name has a schema unit becomes a quantity
AttachUnits(kwargs) ==
    [j \in 1..Len(kwargs) |->
        IF IsNum(kwargs[j][2]) /\ SchemaUnit(kwargs[j][1]) # ""
        THEN <<kwargs[j][1], <<"qty", kwargs[j][2][2], SchemaUnit(kwargs[j][1])>>>>
        ELSE kwargs[j]]

\* the keyword arguments of the call for one record
RowArgs(rec, func_name, colmap, extra_kwargs, fails) ==
    _fill_missing_params(
        AttachUnits(RowKwargs(Signature(func_name), 1, rec, colmap, extra_kwargs)),
        fails)

RowError(rec, func_name, text) ==
    [status |-> "error",
     rec_copy |-> Dict(Put(rec, func_name \o "_error", Text(text))),
     val |-> NoneV]

\* out = func(**kwargs) and what follows it, bind being the outcome of binding
\* the arguments: [status, rec_copy, val], status "value" | "text" | "error"
RowOutcome(rec, func_name, bind, out) ==
    IF bind # "" THEN RowError(rec, func_name, bind)
    ELSE IF out.kind = "raise" THEN RowError(rec, func_name, out.msg)
    ELSE IF out.kind = "scalar" /\ IsNum(out.vals[1])
    THEN [status |-> "value",
          rec_copy |-> Dict(Put(rec, func_name \o "_result", Magnitude(out).vals[1])),
          val |-> Magnitude(out).vals[1]]
    ELSE [status |-> "text",                       \* float(out_v) raises
          rec_copy |-> Dict(Put(rec, func_name \o "_result", Text("str(out_v)"))),
          val |-> NoneV]

\* one pass of the loop body, for a record that is a mapping
RowResult(rec, func_name, colmap, extra_kwargs, fails, out) ==
    RowOutcome(rec, func_name,
               BindError(func_name, RowArgs(rec, func_name, colmap, extra_kwargs, fails)),
               out)

-----------------------------------------------------------------------------
(* compute_with_metpy.  c: the arguments, l: what the library does.           *)
(* Returns [ret, trace]; trace records the path taken.                        *)

NoTrace ==
    [resolved |-> FALSE, colmap |-> <<>>, looked_up |-> FALSE, vec_called |-> FALSE,
     vec_raised |-> FALSE, fallback |-> FALSE, rows |-> <<>>,
     inner |-> NotCalled]

\* the loop over records: the row results of the first k records
RowResults(c, colmap, l, k) ==
    [j \in 1..k |->
        RowResult(c.records[j].items, c.func_name, colmap, c.extra_kwargs,
                  l.fill, l.rows[j])]

\* the number of records before the first one that is no mapping
DictPrefix(records) ==
    IF \A j \in 1..Len(records) : records[j].isdict THEN Len(records)
    ELSE (CHOOSE j \in 1..Len(records) :
              ~records[j].isdict /\ \A k \in 1..(j - 1) : records[k].isdict) - 1

Statuses(rr) == [j \in 1..Len(rr) |-> rr[j].status]

\* the records before the first one whose call failed
BeforeFirstError(rr) ==
    IF \A j \in 1..Len(rr) : rr[j].status # "error" THEN rr
    ELSE SubSeq(rr, 1, (CHOOSE j \in 1..Len(rr) :
                           /\ rr[j].status = "error"
                           /\ \A k \in 1..(j - 1) : rr[k].status # "error") - 1)

\* FallbackReturn of a loop that stops at the first record whose call failed
FallbackReturn_StopsAtError(rr, err, t) ==
    [ret |-> Returned(
         [keys |-> {"status", "message", "processed", "stats"},
          status |-> "partial",
          message |-> "vectorization failed, fell back to row-wise: " \o err,
          processed |-> [j \in 1..Len(BeforeFirstError(rr)) |-> rr[j].rec_copy],
          stats |-> MeanCount(Summary([j \in 1..Len(BeforeFirstError(rr)) |-> rr[j].val],
                                      Len(BeforeFirstError(rr)))),
          result_field |-> ""]),
     trace |-> [t EXCEPT !.rows = Statuses(rr)]]

\* FallbackReturn that reports success when no record failed
FallbackReturn_SuccessIfClean(rr, err, t) ==
    [ret |-> Returned(
         [keys |-> {"status", "message", "processed", "stats"},
          status |-> IF \A j \in 1..Len(rr) : rr[j].status # "error"
                     THEN "success" ELSE "partial",
          message |-> "vectorization failed, fell back to row-wise: " \o err,
          processed |-> [j \in 1..Len(rr) |-> rr[j].rec_copy],
          stats |-> MeanCount(Summary([j \in 1..Len(rr) |-> rr[j].val], Len(rr))),
          result_field |-> ""]),
     trace |-> [t EXCEPT !.rows = Statuses(rr)]]

\* the return statement after the loop
FallbackReturn(rr, err, t) ==
    [ret |-> Returned(
         [keys |-> {"status", "message", "processed", "stats"},
          status |-> "partial",
          message |-> "vectorization failed, fell back to row-wise: " \o err,
          processed |-> [j \in 1..Len(rr) |-> rr[j].rec_copy],
          stats |-> MeanCount(Summary([j \in 1..Len(rr) |-> rr[j].val], Len(rr))),
          result_field |-> ""]),
     trace |-> [t EXCEPT !.rows = Statuses(rr)]]

RowwiseFallback(c, colmap, err, l, t) ==
    IF c.func_name \notin LibraryFunctions
    THEN \* getattr(mpcalc, func_name) before the loop
         [ret |-> Raised("AttributeError: module has no attribute " \o c.func_name),
          trace |-> t]
    ELSE IF DictPrefix(c.records) < Len(c.records)
    THEN \* `param in rec` raises, and dict(rec) raises again in the handler
         [ret |-> Raised("TypeError: object is not iterable"),
          trace |-> [t EXCEPT !.rows =
                        Statuses(RowResults(c, colmap, l, DictPrefix(c.records)))]]
    ELSE FallbackReturn(RowResults(c, colmap, l, Len(c.records)), err, t)

Success(c, processed, col) ==
    Returned([keys |-> {"status", "message", "processed", "stats", "result_field"},
              status |-> "success",
              message |-> c.func_name \o " done",
              processed |-> processed,
              stats |-> StatsOf(processed, col),
              result_field |-> col])

\* the return statement of the success paths, p being the records written
SuccessReturn(c, p, col, t) ==
    IF p.raised
    THEN [ret |-> Raised("TypeError: object is not iterable"), trace |-> t]
    ELSE [ret |-> Success(c, p.recs, col), trace |-> t]

\* WriteSecond with the statistics taken from the second column
WriteSecond_StatsOfSecond(c, res, p1, t) ==
    IF p1.raised
    THEN [ret |-> Raised("TypeError: object is not iterable"), trace |-> t]
    ELSE SuccessReturn(c, postprocess_result_to_records(ArrayOf(res.vals2), p1.recs, "cin_result"),
                       "cin_result", t)

\* the second column of cape_cin, p1 being the records with the first
WriteSecond(c, res, p1, t) ==
    IF p1.raised
    THEN [ret |-> Raised("TypeError: object is not iterable"), trace |-> t]
    ELSE SuccessReturn(c, postprocess_result_to_records(ArrayOf(res.vals2), p1.recs, "cin_result"),
                       "cape_result", t)

OutColName(c) == IF c.out_col # "" THEN c.out_col ELSE c.func_name \o "_result"

WriteResult(c, res, t) ==
    IF c.func_name = "cape_cin" /\ res.kind = "pair"
    THEN WriteSecond(c, res,
             postprocess_result_to_records(ArrayOf(res.vals), c.records, "cape_result"), t)
    ELSE SuccessReturn(c, postprocess_result_to_records(res, c.records, OutColName(c)),
                       OutColName(c), t)

\* after the vectorized call returned v
AfterVectorized(c, l, colmap, v, t) ==
    IF v.err # ""
    THEN RowwiseFallback(c, colmap, v.err, l,
                         [t EXCEPT !.vec_raised = v.raised, !.fallback = TRUE])
    ELSE WriteResult(c, v.res, [t EXCEPT !.vec_raised = v.raised])

\* after build_column_map returned colmap
AfterResolve(c, l, colmap, t) ==
    IF normalize_raises(c.records, colmap)
    THEN [ret |-> Raised("AttributeError: object has no attribute get"), trace |-> t]
    ELSE AfterVectorized(c, l, colmap,
             call_metpy_function_vectorized(c.func_name, prepare_quantities(colmap),
                                            c.extra_kwargs, l),
             [t EXCEPT !.looked_up = TRUE,
                       !.vec_called = c.func_name \in LibraryFunctions])

ResolvedTrace(colmap) == [NoTrace EXCEPT !.resolved = TRUE, !.colmap = colmap]

ResolveAndGo(c, l, colmap) == AfterResolve(c, l, colmap, ResolvedTrace(colmap))

\* compute_with_metpy without the `if not records` test: records[0] raises
compute_with_metpy_NoEmptyTest(c, l) ==
    IF c.records = <<>>
    THEN [ret |-> Raised("IndexError: list index out of range"), trace |-> NoTrace]
    ELSE IF ~c.records[1].isdict
    THEN [ret |-> Raised("AttributeError: object has no attribute keys"), trace |-> NoTrace]
    ELSE ResolveAndGo(c, l, build_column_map(Keys(c.records[1].items)))

compute_with_metpy(c, l) ==
    IF c.records = <<>>
    THEN [ret |-> Returned([NoOutcome EXCEPT !.keys = {"status", "message", "processed"},
                                             !.status = "fail",
                                             !.message = "data is empty"]),
          trace |-> NoTrace]
    ELSE IF ~c.records[1].isdict
    THEN [ret |-> Raised("AttributeError: object has no attribute keys"), trace |-> NoTrace]
    ELSE ResolveAndGo(c, l, build_column_map(Keys(c.records[1].items)))

-----------------------------------------------------------------------------
(* metpy_calcs: the tool wrappers and the catalog                             *)

\* import state of the process: metpy_wrapper imports metpy.calc when it
\* is loaded, so it cannot be imported unless the library can
Envs == {[wrapper |-> TRUE,  library |-> TRUE],
         [wrapper |-> FALSE, library |-> TRUE],
         [wrapper |-> FALSE, library |-> FALSE]}

ImportErrorText(e) ==
    IF e.library THEN "No module named 'config'" ELSE "No module named 'metpy'"

\* the curated names, kept to those of the modelled library
METPY_FUNCTIONS_MANUAL == <<"dewpoint">>

\* sorted(dir(mpcalc)) filtered by _is_public_callable
PublicCallables ==
    <<"cape_cin", "dewpoint", "dewpoint_from_relative_humidity", "pressure_to_height_std">>

_make_tool_from_name(name, e) ==
    IF e.wrapper
    THEN [kind |-> "tool", name |-> name, message |-> ""]
    ELSE [kind |-> "error_tool", name |-> name,
          message |-> "cannot import metpy_wrapper: " \o ImportErrorText(e)]

FailOutcome(message) ==
    [NoOutcome EXCEPT !.keys = {"status", "message"}, !.status = "fail", !.message = message]

EmptyKwargs == [none |-> FALSE, items |-> <<>>]
NoKwargs    == [none |-> TRUE,  items |-> <<>>]

\* the arguments the closure `tool` passes on
ToolArgs(c) ==
    [c EXCEPT !.func_name = c.name, !.out_col = "",
              !.extra_kwargs = IF c.extra_kwargs.none THEN EmptyKwargs ELSE c.extra_kwargs]

\* the try/except of `tool` around the call, r being how the call ended
ToolReturn(r) ==
    IF r.ret.kind = "raise"
    THEN [ret |-> Returned(FailOutcome(r.ret.exc)), trace |-> [r.trace EXCEPT !.inner = r.ret]]
    ELSE [ret |-> r.ret, trace |-> [r.trace EXCEPT !.inner = r.ret]]

\* error_tool(records, extra_kwargs): its f-string reads `e`, the name bound by
\* `except ImportError as e`; Python unbinds that name when the except clause
\* is left, here by `return error_tool`, so the read raises NameError
ErrorToolReturn(t) ==
    [ret |-> Raised("NameError: cannot access free variable 'e'"), trace |-> NoTrace]

\* tool(records, extra_kwargs) and error_tool(records, extra_kwargs)
CallTool(t, c, l) ==
    IF t.kind = "error_tool"
    THEN ErrorToolReturn(t)
    ELSE ToolReturn(compute_with_metpy(ToolArgs(c), l))

NoCache == [none |-> TRUE, tools |-> <<>>]

RECURSIVE AddTools(_, _, _, _, _)
AddTools(tools, names, k, skip_known, e) ==
    IF k > Len(names) THEN tools
    ELSE AddTools(IF skip_known /\ Has(tools, names[k]) THEN tools
                  ELSE Put(tools, names[k], _make_tool_from_name(names[k], e)),
                  names, k + 1, skip_known, e)

\* _TOOLS_CACHE = tools.copy(); return dict(tools): the cache and the returned
\* dict are two new dict objects
BuiltCatalog(tools) ==
    [kind |-> "return", catalog |-> tools, is_cache |-> FALSE, exc |-> "",
     cache |-> [none |-> FALSE, tools |-> tools]]

\* generate_all_tools whose cached path is `return _TOOLS_CACHE`
generate_all_tools_ReturnsCache(cache, e) ==
    IF ~cache.none
    THEN [kind |-> "return", catalog |-> cache.tools, is_cache |-> TRUE, exc |-> "",
          cache |-> cache]
    ELSE IF ~e.library
    THEN [kind |-> "raise", catalog |-> <<>>, is_cache |-> FALSE,
          exc |-> "ModuleNotFoundError: " \o ImportErrorText(e), cache |-> cache]
    ELSE BuiltCatalog(AddTools(AddTools(<<>>, METPY_FUNCTIONS_MANUAL, 1, FALSE, e),
                               PublicCallables, 1, TRUE, e))

\* returns [kind, catalog, is_cache, exc, cache]; is_cache: the returned dict
\* is the very object the cache holds
generate_all_tools(cache, e) ==
    IF ~cache.none
    THEN \* return dict(_TOOLS_CACHE)
         [kind |-> "return", catalog |-> cache.tools, is_cache |-> FALSE, exc |-> "",
          cache |-> cache]
    ELSE IF ~e.library
    THEN \* _get_mpcalc(): import metpy.calc, outside any try
         [kind |-> "raise", catalog |-> <<>>, is_cache |-> FALSE,
          exc |-> "ModuleNotFoundError: " \o ImportErrorText(e), cache |-> cache]
    ELSE BuiltCatalog(AddTools(AddTools(<<>>, METPY_FUNCTIONS_MANUAL, 1, FALSE, e),
                               PublicCallables, 1, TRUE, e))

\* a thread of generate_all_tools that has not called yet
NoReturn == [kind |-> "none", catalog |-> <<>>, exc |-> ""]

IdleCaller ==
    [pc |-> "idle", calls |-> 0, built |-> FALSE, tools |-> <<>>, result |-> NoReturn]

\* Publish that binds the global to the dict under construction
Publish_Early(cache, tools, pc) == [none |-> FALSE, tools |-> tools]

\* the global after the statements at pc, `tools` being the local dict: only
\* `_TOOLS_CACHE = tools.copy()`, after both loops, assigns it
Publish(cache, tools, pc) ==
    IF pc = "built" THEN [none |-> FALSE, tools |-> tools] ELSE cache

\* MeteorologyAgent._register_tools: what it adds to the returned dict
\* tools['plot_time_series'] = ... and the assignments after it
PlotNames == <<"plot_time_series", "plot_correlation_heatmap", "plot_station_distribution">>

OtherTool(name) == [kind |-> "other", name |-> name, message |-> ""]

RECURSIVE AddOthers(_, _, _)
AddOthers(tools, names, k) ==
    IF k > Len(names) THEN tools
    ELSE AddOthers(Put(tools, names[k], OtherTool(names[k])), names, k + 1)

\* del d[key]
Remove(d, key) == SelectSeq(d, LAMBDA it : it[1] # key)

\* what writing `written` into the dict a caller holds leaves in the cache:
\* the same, when the caller's dict is the cache's own object
CacheAfterWrite(cache, is_cache, written) ==
    IF is_cache THEN [cache EXCEPT !.tools = written] ELSE cache

NotHeld == [n |-> 0, is_cache |-> FALSE, tools |-> <<>>]

-----------------------------------------------------------------------------
(* Inputs of the calls *)

\* column names: 温度, 气温, 高度, ΦZ, height and the empty name (what the
\* loader's clean_col_name leaves of a header made of symbols only)
ColumnPool == {"wendu", "qiwen", "gaodu", "PHI_Z", "height", ""}

\* lists of up to MaxColumns different columns
ColumnLists ==
    UNION {{cs \in [1..n -> ColumnPool] : \A j, k \in 1..n : cs[j] = cs[k] => j = k}
           : n \in 0..MaxColumns}

NoProbe ==
    [fn |-> "none", columns |-> <<>>, colmap |-> <<>>,
     n |-> 0, fields |-> <<>>, counts |-> <<>>, warnings |-> <<>>,
     params |-> <<>>, fails |-> {}, filled |-> <<>>, again |-> FALSE,
     second |-> NotCalled, after_records |-> <<>>, after_extra |-> <<>>]


R_25_70 == Dict(<< <<"wendu", Num(25)>>, <<"xiangduishidu", Num(70)>> >>)
R_30_80 == Dict(<< <<"wendu", Num(30)>>, <<"xiangduishidu", Num(80)>> >>)
R_vp    == Dict(<< <<"vapor_pressure", Num(10)>> >>)

RecordPool == {R_25_70, R_30_80, R_vp, NotADict}

\* records of a sounding: pressure, temperature and relative humidity
R_1000_25_70 ==
    Dict(<< <<"qiya_HPA", Num(1000)>>, <<"wendu", Num(25)>>, <<"xiangduishidu", Num(70)>> >>)
R_900_20_60 ==
    Dict(<< <<"qiya_HPA", Num(900)>>, <<"wendu", Num(20)>>, <<"xiangduishidu", Num(60)>> >>)

ProfilePool == {R_1000_25_70, R_900_20_60}

\* records whose only column is a height, named in Chinese or in English
HeightPool == {Dict(<< <<"gaodu", Num(1000)>> >>), Dict(<< <<"height", Num(1000)>> >>)}

\* a record that has a column under a parameter's own name beside the
\* Chinese columns, and a column td
DirectPool ==
    {Dict(<< <<"temperature", Num(1)>>, <<"wendu", Num(25)>>,
             <<"xiangduishidu", Num(70)>>, <<"td", Num(3)>> >>)}

\* the datasets: up to MaxRecords records drawn from one pool
RecordSeqs ==
    UNION {[1..n -> pool] : n \in 0..MaxRecords,
                            pool \in {RecordPool, ProfilePool, HeightPool, DirectPool}}

FuncNames == LibraryFunctions \cup {"not_a_real_function"}

OutCols == {"", "td"}       \* "" stands for out_col=None

ExtraPool ==
    {NoKwargs,
     [none |-> FALSE,
      items |-> << <<"vapor_pressure", Num(12)>>, <<"relative_humidity", Num(50)>> >>]}

NoCall == [via |-> "none", name |-> "", records |-> <<>>, func_name |-> "",
           out_col |-> "", extra_kwargs |-> NoKwargs]

-----------------------------------------------------------------------------
(* What the library may do during a call: every behaviour of the parts of the *)
(* library the call reaches; a part it does not reach is left at NoResult     *)

NoLib == [fill |-> {}, vec |-> NoResult, rows |-> <<>>]

FillPool == {{}, {"dewpoint"}, {"parcel_profile"}}

VecPool(n) ==
    {Raises("ValueError: bad data"), Raises(""),
     ArrayOf([j \in 1..n |-> Num(10 + j)]),
     ArrayOf([j \in 1..n |-> IF j = 1 THEN NaN ELSE Num(10 + j)]),
     ArrayOf([j \in 1..(n - 1) |-> Num(10 + j)]),
     ArrayOf([j \in 1..(n + 1) |-> Num(10 + j)]),
     ScalarOf(Num(7)),
     InKelvin(ArrayOf([j \in 1..n |-> Num(290 + j)])),
     PairOf(<<Num(9)>>, <<Num(2)>>),
     PairOf([j \in 1..n |-> IF j = 1 THEN NaN ELSE Num(20 + j)],
            [j \in 1..n |-> Num(30 + j)])}

RowPool ==
    {Raises("ValueError: bad value"), ScalarOf(Num(5)), InKelvin(ScalarOf(Num(281))), NonNumeric}

VectorizedBind(c, colmap, f) ==
    BindError(c.func_name,
              CallArgs(Signature(c.func_name), 1,
                       _fill_missing_params(prepare_quantities(colmap), f),
                       c.extra_kwargs))

\* the library is called for record j of the loop
RowCalled(c, colmap, f, j) ==
    /\ j <= DictPrefix(c.records)
    /\ BindError(c.func_name,
                 RowArgs(c.records[j].items, c.func_name, colmap, c.extra_kwargs, f)) = ""

RowChoices(c, colmap, f, loop) ==
    {r \in [1..Len(c.records) -> RowPool \cup {NoResult}] :
        \A j \in 1..Len(c.records) :
            (r[j] # NoResult) <=> (loop /\ RowCalled(c, colmap, f, j))}

VecChoices(c, colmap, f, vbind) ==
    UNION {{[fill |-> f, vec |-> v, rows |-> r] :
               r \in RowChoices(c, colmap, f, vbind # "" \/ (v.kind = "raise" /\ v.msg # ""))}
           : v \in IF vbind = "" THEN VecPool(Len(c.records)) ELSE {NoResult}}

\* a derivation of `fails` is reached, for the arrays or for some record
FillReached(c, colmap, fails) ==
    \/ _fill_missing_params(prepare_quantities(colmap), {})
          # _fill_missing_params(prepare_quantities(colmap), fails)
    \/ \E j \in 1..DictPrefix(c.records) :
          RowArgs(c.records[j].items, c.func_name, colmap, c.extra_kwargs, {})
              # RowArgs(c.records[j].items, c.func_name, colmap, c.extra_kwargs, fails)

LibChoicesFor(c, colmap) ==
    IF normalize_raises(c.records, colmap) \/ c.func_name \notin LibraryFunctions
    THEN {NoLib}
    ELSE UNION {VecChoices(c, colmap, f, VectorizedBind(c, colmap, f))
                : f \in {f \in FillPool : f = {} \/ FillReached(c, colmap, f)}}

LibChoices(c) ==
    IF c.records = <<>> \/ ~c.records[1].isdict THEN {NoLib}
    ELSE LibChoicesFor(c, build_column_map(Keys(c.records[1].items)))

-----------------------------------------------------------------------------
(* The state machine *)

Init ==
    /\ env \in Envs
    /\ _TOOLS_CACHE = NoCache
    /\ gen = [kind |-> "none", catalog |-> <<>>, exc |-> ""]
    /\ held = NotHeld
    /\ probe = NoProbe
    /\ call = NoCall
    /\ lib = NoLib
    /\ trace = NoTrace
    /\ ret = NotCalled
    /\ callers = [t \in 1..MaxCallers |-> IdleCaller]

GenerateReturns(g) ==
    /\ gen' = [kind |-> g.kind, catalog |-> g.catalog, exc |-> g.exc]
    /\ _TOOLS_CACHE' = g.cache

\* a call of generate_all_tools()
GenerateAllTools ==
    /\ GenerateReturns(generate_all_tools(_TOOLS_CACHE, env))
    /\ UNCHANGED <<env, held, probe, call, lib, trace, ret, callers>>

\* tools = generate_all_tools() returned g; the registrations follow
Registers(g) ==
    /\ gen' = [kind |-> g.kind, catalog |-> g.catalog, exc |-> g.exc]
    /\ IF g.kind = "raise"
       THEN _TOOLS_CACHE' = g.cache /\ UNCHANGED held
       ELSE /\ held' = [n |-> held.n + 1, is_cache |-> g.is_cache,
                        tools |-> AddOthers(g.catalog, PlotNames, 1)]
            /\ _TOOLS_CACHE' = CacheAfterWrite(g.cache, g.is_cache,
                                               AddOthers(g.catalog, PlotNames, 1))

\* MeteorologyAgent._register_tools(), when an agent is constructed
RegisterTools ==
    /\ held.n < MaxAgents
    /\ ret.kind = "none"
    /\ probe.fn = "none"
    /\ Registers(generate_all_tools(_TOOLS_CACHE, env))
    /\ UNCHANGED <<env, probe, call, lib, trace, ret, callers>>

\* the holder of a returned dict removes or replaces one of its entries
Mutates(written) ==
    /\ held' = [held EXCEPT !.tools = written]
    /\ _TOOLS_CACHE' = CacheAfterWrite(_TOOLS_CACHE, held.is_cache, written)

CallerMutates ==
    /\ held.n > 0
    /\ ret.kind = "none"
    /\ probe.fn = "none"
    /\ \E k \in 1..Len(held.tools) :
          \/ Mutates(Remove(held.tools, held.tools[k][1]))
          \/ Mutates(Put(held.tools, held.tools[k][1], OtherTool("replaced")))
    /\ UNCHANGED <<env, gen, probe, call, lib, trace, ret, callers>>

\* a helper function of metpy_wrapper is called on its own, in a process that
\* can import the module and has made no other call
ProbeAlone ==
    env.wrapper /\ probe.fn = "none" /\ ret.kind = "none" /\ held.n = 0 /\ gen.kind = "none"

\* a call of build_column_map(columns)
BuildColumnMapCall ==
    /\ ProbeAlone
    /\ \E columns \in ColumnLists :
          probe' = [NoProbe EXCEPT !.fn = "build_column_map", !.columns = columns,
                                   !.colmap = build_column_map(columns)]
    /\ UNCHANGED <<env, _TOOLS_CACHE, gen, held, call, lib, trace, ret, callers>>

\* ArgsAfter when the result columns are written into the caller's records
ArgsAfter_InPlace(c, r) ==
    IF r.kind = "return" /\ "processed" \in r.outcome.keys /\ r.outcome.processed # <<>>
    THEN [c EXCEPT !.records = r.outcome.processed]
    ELSE c

\* ArgsAfter when the loop collects its kwargs in the caller's extra_kwargs
ArgsAfter_SharedKwargs(c, r) ==
    IF Truthy(c.extra_kwargs) /\ c.records # <<>> /\ c.records[1].isdict
    THEN [c EXCEPT !.extra_kwargs.items =
             RowKwargs(Signature(c.func_name), 1, c.records[1].items, <<>>, c.extra_kwargs)
             \o SelectSeq(@, LAMBDA it : it[1] \notin Range(Signature(c.func_name)))]
    ELSE c

\* the caller's arguments once the call is over: compute_with_metpy assigns
\* into dict(rec) copies and into dicts of its own, never into `records` or
\* `extra_kwargs`
ArgsAfter(c, r) == c

\* the same call of compute_with_metpy once more, the catalog being built; the
\* library, given the same records, function and extra arguments, behaves as
\* it did
ComputeAgain ==
    /\ call.via = "compute"
    /\ gen.kind = "return"
    /\ ret.kind # "none"
    /\ probe.fn = "none"
    /\ \E l \in IF /\ ArgsAfter(call, ret).records = call.records
                   /\ ArgsAfter(call, ret).extra_kwargs = call.extra_kwargs
                THEN {lib} ELSE LibChoices(ArgsAfter(call, ret)) :
          probe' = [NoProbe EXCEPT
                      !.fn = "compute_again",
                      !.after_records = ArgsAfter(call, ret).records,
                      !.after_extra = ArgsAfter(call, ret).extra_kwargs.items,
                      !.second = compute_with_metpy(ArgsAfter(call, ret), l).ret]
    /\ UNCHANGED <<env, _TOOLS_CACHE, gen, held, call, lib, trace, ret, callers>>

\* _fill_missing_params called once more on the dict it has just filled, the
\* library raising where it raised before
FillAgain ==
    /\ probe.fn = "_fill_missing_params"
    /\ ~probe.again
    /\ probe' = [probe EXCEPT !.again = TRUE,
                              !.params = probe.filled,
                              !.filled = _fill_missing_params(probe.filled, probe.fails)]
    /\ UNCHANGED <<env, _TOOLS_CACHE, gen, held, call, lib, trace, ret, callers>>

\* a call of normalize_units(data_dicts, colmap) on n records; of each mapped
\* field's n values `missing` are None or not numbers and `bad` lie outside
\* the field's range
NormalizeUnitsCall ==
    /\ ProbeAlone
    /\ \E n \in {1, 100, 200},
          fields \in {<<"temperature">>, <<"temperature", "relative_humidity">>} :
          \E counts \in [1..Len(fields) ->
                           {c \in [missing : {0, 100, 150}, bad : 0..4] :
                               c.missing + c.bad <= n}] :
             probe' = [NoProbe EXCEPT !.fn = "normalize_units", !.n = n,
                                      !.fields = fields, !.counts = counts,
                                      !.warnings = RangeWarnings(fields, counts, n, 1)]
    /\ UNCHANGED <<env, _TOOLS_CACHE, gen, held, call, lib, trace, ret, callers>>

\* a call of _fill_missing_params(params) on a dict holding the quantities of
\* `present`, while the library raises in the derivations of `fails`
FillMissingParamsCall ==
    /\ ProbeAlone
    /\ \E present \in SUBSET {"temperature", "relative_humidity", "specific_humidity",
                               "pressure", "height", "geopotential_height",
                               "dewpoint", "mixing_ratio", "parcel_profile"},
          fails \in SUBSET {"dewpoint", "mixing_ratio", "pressure", "parcel_profile"} :
          probe' = [NoProbe EXCEPT
                      !.fn = "_fill_missing_params",
                      !.params = prepare_quantities(
                          SelectSeq(<< <<"temperature", "T">>, <<"relative_humidity", "RH">>,
                                       <<"specific_humidity", "q">>, <<"pressure", "p">>,
                                       <<"height", "z">>, <<"geopotential_height", "gz">>,
                                       <<"dewpoint", "Td">>, <<"mixing_ratio", "w">>,
                                       <<"parcel_profile", "prof">> >>,
                                    LAMBDA it : it[1] \in present)),
                      !.fails = fails,
                      !.filled = _fill_missing_params(
                          prepare_quantities(
                              SelectSeq(<< <<"temperature", "T">>, <<"relative_humidity", "RH">>,
                                           <<"specific_humidity", "q">>, <<"pressure", "p">>,
                                           <<"height", "z">>, <<"geopotential_height", "gz">>,
                                           <<"dewpoint", "Td">>, <<"mixing_ratio", "w">>,
                                           <<"parcel_profile", "prof">> >>,
                                        LAMBDA it : it[1] \in present)),
                          fails)]
    /\ UNCHANGED <<env, _TOOLS_CACHE, gen, held, call, lib, trace, ret, callers>>

CallReturns(c, l, r) ==
    /\ call' = c
    /\ lib' = l
    /\ ret' = r.ret
    /\ trace' = r.trace

ComputeArgs(records, func_name, out_col, extra_kwargs) ==
    [via |-> "compute", name |-> "", records |-> records, func_name |-> func_name,
     out_col |-> out_col, extra_kwargs |-> extra_kwargs]

Compute(c) == \E l \in LibChoices(c) : CallReturns(c, l, compute_with_metpy(c, l))

\* a call of compute_with_metpy(records, func_name, out_col=..., extra_kwargs=...)
ComputeCall ==
    /\ env.wrapper
    /\ ret.kind = "none"
    /\ held.n = 0
    /\ probe.fn = "none"
    /\ \E records \in RecordSeqs, func_name \in FuncNames, out_col \in OutCols,
          extra_kwargs \in ExtraPool :
          Compute(ComputeArgs(records, func_name, out_col, extra_kwargs))
    /\ UNCHANGED <<env, _TOOLS_CACHE, gen, held, probe, callers>>

ToolCallArgs(t, records, extra_kwargs) ==
    [via |-> t.kind, name |-> t.name, records |-> records, func_name |-> "",
     out_col |-> "", extra_kwargs |-> extra_kwargs]

RunTool(t, c) ==
    \E l \in (IF t.kind = "tool" THEN LibChoices(ToolArgs(c)) ELSE {NoLib}) :
        CallReturns(c, l, CallTool(t, c, l))

\* a call tool(records, extra_kwargs) of a tool of the returned catalog
ToolCall ==
    /\ gen.kind = "return"
    /\ ret.kind = "none"
    /\ held.n = 0
    /\ probe.fn = "none"
    /\ \E k \in 1..Len(gen.catalog), records \in RecordSeqs, extra_kwargs \in ExtraPool :
          RunTool(gen.catalog[k][2], ToolCallArgs(gen.catalog[k][2], records, extra_kwargs))
    /\ UNCHANGED <<env, _TOOLS_CACHE, gen, held, probe, callers>>

-----------------------------------------------------------------------------
(* generate_all_tools() run by several threads, one statement group a step   *)

\* `if _TOOLS_CACHE is not None: return dict(_TOOLS_CACHE)`, else tools = {}
Enter(t) ==
    /\ callers[t].pc \in {"idle", "done"}
    /\ callers[t].calls < MaxCalls
    /\ callers' = [callers EXCEPT ![t] =
          IF ~_TOOLS_CACHE.none
          THEN [pc |-> "done", calls |-> @.calls + 1, built |-> FALSE, tools |-> <<>>,
                result |-> [kind |-> "return", catalog |-> _TOOLS_CACHE.tools, exc |-> ""]]
          ELSE [pc |-> "building", calls |-> @.calls + 1, built |-> TRUE, tools |-> <<>>,
                result |-> NoReturn]]
    /\ UNCHANGED <<env, _TOOLS_CACHE, gen, held, probe, call, lib, trace, ret>>

\* the loop over METPY_FUNCTIONS_MANUAL
AddManual(t) ==
    /\ callers[t].pc = "building"
    /\ callers' = [callers EXCEPT ![t].pc = "manual",
                                  ![t].tools = AddTools(<<>>, METPY_FUNCTIONS_MANUAL, 1, FALSE, env)]
    /\ _TOOLS_CACHE' = Publish(_TOOLS_CACHE, callers'[t].tools, "building")
    /\ UNCHANGED <<env, gen, held, probe, call, lib, trace, ret>>

\* mpcalc = _get_mpcalc(), which raises out of the call when the import fails
ImportLibrary(t) ==
    /\ callers[t].pc = "manual"
    /\ callers' = [callers EXCEPT ![t] =
          IF env.library THEN [@ EXCEPT !.pc = "imported"]
          ELSE [@ EXCEPT !.pc = "done",
                         !.result = [kind |-> "raise", catalog |-> <<>>,
                                     exc |-> "ModuleNotFoundError: " \o ImportErrorText(env)]]]
    /\ UNCHANGED <<env, _TOOLS_CACHE, gen, held, probe, call, lib, trace, ret>>

\* the loop over the public callables of the library
AddPublic(t) ==
    /\ callers[t].pc = "imported"
    /\ callers' = [callers EXCEPT ![t].pc = "built",
                                  ![t].tools = AddTools(@, PublicCallables, 1, TRUE, env)]
    /\ _TOOLS_CACHE' = Publish(_TOOLS_CACHE, callers'[t].tools, "imported")
    /\ UNCHANGED <<env, gen, held, probe, call, lib, trace, ret>>

\* _TOOLS_CACHE = tools.copy()
StoreCache(t) ==
    /\ callers[t].pc = "built"
    /\ callers' = [callers EXCEPT ![t].pc = "stored"]
    /\ _TOOLS_CACHE' = Publish(_TOOLS_CACHE, callers[t].tools, "built")
    /\ UNCHANGED <<env, gen, held, probe, call, lib, trace, ret>>

\* return dict(tools)
ReturnTools(t) ==
    /\ callers[t].pc = "stored"
    /\ callers' = [callers EXCEPT ![t].pc = "done",
                                  ![t].result = [kind |-> "return",
                                                 catalog |-> callers[t].tools,
                                                 exc |-> ""]]
    /\ UNCHANGED <<env, _TOOLS_CACHE, gen, held, probe, call, lib, trace, ret>>

InterleavedNext ==
    \E t \in 1..MaxCallers :
        \/ Enter(t)
        \/ AddManual(t)
        \/ ImportLibrary(t)
        \/ AddPublic(t)
        \/ StoreCache(t)
        \/ ReturnTools(t)

Interleaved == Init /\ [][InterleavedNext]_vars

Next ==
    \/ GenerateAllTools
    \/ RegisterTools
    \/ CallerMutates
    \/ BuildColumnMapCall
    \/ NormalizeUnitsCall
    \/ FillMissingParamsCall
    \/ FillAgain
    \/ ComputeCall
    \/ ComputeAgain
    \/ ToolCall

Spec == Init /\ [][Next]_vars

-----------------------------------------------------------------------------
(* Properties.  A call of a catalog tool runs compute_with_metpy inside it:   *)
(* the properties of compute_with_metpy are stated of the underlying call,    *)
(* made directly or by a tool.                                                *)

\* the arguments compute_with_metpy was called with
UnderlyingCall == IF call.via = "tool" THEN ToolArgs(call) ELSE call

\* how compute_with_metpy ended
UnderlyingReturn == IF call.via = "tool" THEN trace.inner ELSE ret

ComputeRan == call.via \in {"compute", "tool"} /\ UnderlyingReturn.kind # "none"

ComputeReturned == ComputeRan /\ UnderlyingReturn.kind = "return"

ComputeOutcome == UnderlyingReturn.outcome

AllMappings(records) == \A j \in 1..Len(records) : records[j].isdict

\* the columns compute_with_metpy may write for the arguments c
WrittenColumns(c) ==
    {OutColName(c), c.func_name \o "_result", c.func_name \o "_error",
     "cape_result", "cin_result"}

\* C1 (as the spec states it): compute_with_metpy with non-empty records and a
\* function name the library does not have returns status fail, does not
\* raise, enters no row-wise fallback, and has no processed records.
C1_UnknownFunctionFails ==
    (/\ ComputeRan
     /\ UnderlyingCall.records # <<>>
     /\ AllMappings(UnderlyingCall.records)
     /\ UnderlyingCall.func_name \notin LibraryFunctions)
    => /\ UnderlyingReturn.kind = "return"
       /\ ComputeOutcome.status = "fail"
       /\ ~trace.fallback
       /\ ("processed" \notin ComputeOutcome.keys \/ ComputeOutcome.processed = <<>>)

\* processed record p is built from input record r for the call c: the keys of
\* r are the first keys of p, in r's order, and every column the call does not
\* write keeps r's value
BuiltFrom(p, r, c) ==
    /\ p.isdict
    /\ Len(p.items) >= Len(r.items)
    /\ \A k \in 1..Len(r.items) :
          /\ p.items[k][1] = r.items[k][1]
          /\ r.items[k][1] \notin WrittenColumns(c) => p.items[k] = r.items[k]

\* C2: every outcome of compute_with_metpy with status success or partial, for
\* non-empty records, has as many processed records as there are input
\* records, the i-th built from the i-th input record with all of its keys.
C2_ProcessedKeepsInput ==
    (/\ ComputeReturned
     /\ UnderlyingCall.records # <<>>
     /\ ComputeOutcome.status \in {"success", "partial"})
    => /\ Len(ComputeOutcome.processed) = Len(UnderlyingCall.records)
       /\ \A i \in 1..Len(UnderlyingCall.records) :
             BuiltFrom(ComputeOutcome.processed[i], UnderlyingCall.records[i],
                       UnderlyingCall)

\* two different records came back with status success, a column added to each
C2_Witness ==
    /\ ComputeReturned
    /\ ComputeOutcome.status = "success"
    /\ Len(UnderlyingCall.records) = 2
    /\ UnderlyingCall.records[1] # UnderlyingCall.records[2]
    /\ \A i \in 1..2 :
          Len(ComputeOutcome.processed[i].items) > Len(UnderlyingCall.records[i].items)

\* record j of the fallback loop raised: while its arguments were bound (the
\* library was not called for it) or inside the library
RowRaised(j) == lib.rows[j] = NoResult \/ lib.rows[j].kind = "raise"

ErrorColumn == UnderlyingCall.func_name \o "_error"

ResultColumn == UnderlyingCall.func_name \o "_result"

\* C3: in the row-wise fallback over records that are mappings, a record whose
\* call raises gets a copy with a <function>_error column holding the error
\* text, every other record gets its <function>_result, and the batch returns.
C3_RowFailureConfined ==
    (/\ ComputeRan
     /\ trace.fallback
     /\ UnderlyingCall.func_name \in LibraryFunctions
     /\ AllMappings(UnderlyingCall.records))
    => /\ UnderlyingReturn.kind = "return"
       /\ Len(ComputeOutcome.processed) = Len(UnderlyingCall.records)
       /\ \A j \in 1..Len(UnderlyingCall.records) :
             IF RowRaised(j)
             THEN /\ Has(ComputeOutcome.processed[j].items, ErrorColumn)
                  /\ Get(ComputeOutcome.processed[j].items, ErrorColumn)[1] = "str"
                  /\ lib.rows[j].kind = "raise" =>
                        Get(ComputeOutcome.processed[j].items, ErrorColumn)
                            = Text(lib.rows[j].msg)
                  /\ ComputeOutcome.processed[j] =
                        Dict(Put(UnderlyingCall.records[j].items, ErrorColumn,
                                 Get(ComputeOutcome.processed[j].items, ErrorColumn)))
             ELSE /\ Has(ComputeOutcome.processed[j].items, ResultColumn)
                  /\ ~Has(ComputeOutcome.processed[j].items, ErrorColumn)

\* the first of two records raised inside the library, the second was valued
C3_Witness ==
    /\ ComputeReturned
    /\ trace.fallback
    /\ Len(UnderlyingCall.records) = 2
    /\ lib.rows[1].kind = "raise"
    /\ trace.rows = <<"error", "value">>
    /\ Has(ComputeOutcome.processed[2].items, ResultColumn)

\* C4 (as the spec states it): whenever the whole-array call raised, whatever
\* the message, compute_with_metpy runs the row-wise fallback and does not end
\* with status success.
C4_VectorizedRaiseFallsBack ==
    (ComputeRan /\ trace.vec_raised)
    => /\ trace.fallback
       /\ ~(UnderlyingReturn.kind = "return" /\ ComputeOutcome.status = "success")

\* the records of the fallback loop for which the library returned a number
NumericRows ==
    {j \in 1..Len(lib.rows) : lib.rows[j].kind = "scalar" /\ IsNum(lib.rows[j].vals[1])}

\* the number the library returned for a record, in degrees Celsius when the
\* library gave it in kelvin
RowNumber(j) ==
    IF lib.rows[j].unit = "kelvin" THEN lib.rows[j].vals[1][2] - 273
    ELSE lib.rows[j].vals[1][2]

RECURSIVE SumOfRows(_)
SumOfRows(S) ==
    IF S = {} THEN 0
    ELSE RowNumber(CHOOSE j \in S : TRUE) + SumOfRows(S \ {CHOOSE j \in S : TRUE})

\* C5: an outcome returned by the row-wise fallback has status partial, and
\* its stats hold mean (sum over count) and count of exactly the records whose
\* result was a number, and are empty when there is none.
C5_FallbackIsPartial ==
    (ComputeReturned /\ trace.fallback)
    => /\ ComputeOutcome.status = "partial"
       /\ "stats" \in ComputeOutcome.keys
       /\ ComputeOutcome.stats.keys =
             IF NumericRows = {} THEN {} ELSE {"mean", "count"}
       /\ ComputeOutcome.stats.count = Cardinality(NumericRows)
       /\ ComputeOutcome.stats.sum = SumOfRows(NumericRows)

\* the fallback valued both of two records, with different numbers
C5_Witness ==
    /\ ComputeReturned
    /\ trace.fallback
    /\ trace.rows = <<"value", "value">>
    /\ lib.rows[1] # lib.rows[2]
    /\ ComputeOutcome.status = "partial"
    /\ ComputeOutcome.stats.count = 2

ErrorTagged ==
    {j \in 1..Len(ComputeOutcome.processed) :
        Has(ComputeOutcome.processed[j].items, ErrorColumn)}

NumericValued ==
    {j \in 1..Len(ComputeOutcome.processed) :
        /\ Has(ComputeOutcome.processed[j].items, ResultColumn)
        /\ IsNum(Get(ComputeOutcome.processed[j].items, ResultColumn))}

TextValued ==
    {j \in 1..Len(ComputeOutcome.processed) :
        /\ Has(ComputeOutcome.processed[j].items, ResultColumn)
        /\ Get(ComputeOutcome.processed[j].items, ResultColumn)[1] = "str"}

\* C6 (as the spec states it): after a row-wise fallback the records tagged
\* with <function>_error plus the records counted in stats.count are all the
\* input records.
C6_ErrorsPlusCountIsTotal ==
    (ComputeReturned /\ trace.fallback)
    => Cardinality(ErrorTagged) + ComputeOutcome.stats.count
           = Len(UnderlyingCall.records)

\* C6 (amended): after a row-wise fallback every input record is in exactly
\* one of three groups: tagged with <function>_error, given a numeric
\* <function>_result (these are the ones counted in stats.count), or given
\* the text of a result that is not a number as <function>_result.
C6_ErrorsNumbersTextsAreTotal ==
    (ComputeReturned /\ trace.fallback)
    => /\ Cardinality(ErrorTagged) + ComputeOutcome.stats.count + Cardinality(TextValued)
             = Len(UnderlyingCall.records)
       /\ ComputeOutcome.stats.count = Cardinality(NumericValued)
       /\ ErrorTagged \cap (NumericValued \cup TextValued) = {}

\* one record failed and another one got the text of a result that is no number
C6_Witness ==
    /\ ComputeReturned
    /\ trace.fallback
    /\ ErrorTagged # {}
    /\ TextValued # {}

\* C7 (as the spec states it): every outcome handed to a caller, by
\* compute_with_metpy or by a catalog tool, has status, message and processed,
\* and has stats or result_field only when its status is success or partial.
C7_OutcomeHasProcessed ==
    ret.kind = "return"
    => /\ {"status", "message", "processed"} \subseteq ret.outcome.keys
       /\ ret.outcome.status \notin {"success", "partial"}
             => ret.outcome.keys \cap {"stats", "result_field"} = {}

\* C8 (as the spec states it): a call of a catalog tool never raises, and an
\* exception raised inside compute_with_metpy comes back as an outcome with
\* status fail and the exception text as message.
C8_ToolNeverRaises ==
    call.via \in {"tool", "error_tool"}
    => /\ ret.kind = "return"
       /\ trace.inner.kind = "raise"
             => /\ ret.outcome.status = "fail"
                /\ ret.outcome.message = trace.inner.exc

\* C9 (as the spec states it): for the records {wendu: 25, xiangduishidu: 70}
\* and {wendu: 30, xiangduishidu: 80} and the function dewpoint, the column map
\* binds temperature to wendu and relative_humidity to xiangduishidu, and the
\* outcome has status success with a numeric dewpoint_result below the
\* temperature in each of the two processed records.
C9_DewpointExample ==
    (/\ ComputeRan
     /\ UnderlyingCall.func_name = "dewpoint"
     /\ UnderlyingCall.records = <<R_25_70, R_30_80>>
     /\ UnderlyingCall.out_col = ""
     /\ ~Truthy(UnderlyingCall.extra_kwargs))
    => /\ Has(trace.colmap, "temperature")
       /\ Get(trace.colmap, "temperature") = "wendu"
       /\ Has(trace.colmap, "relative_humidity")
       /\ Get(trace.colmap, "relative_humidity") = "xiangduishidu"
       /\ UnderlyingReturn.kind = "return"
       /\ ComputeOutcome.status = "success"
       /\ Len(ComputeOutcome.processed) = 2
       /\ \A i \in 1..2 :
             /\ Has(ComputeOutcome.processed[i].items, "dewpoint_result")
             /\ IsNum(Get(ComputeOutcome.processed[i].items, "dewpoint_result"))
             /\ Get(ComputeOutcome.processed[i].items, "dewpoint_result")[2]
                    < Get(UnderlyingCall.records[i].items, "wendu")[2]

\* C10 (as the spec states it): when the library or metpy_wrapper cannot be
\* imported, generate_all_tools returns a catalog, every tool of it is a stub,
\* and a call of a stub returns status fail with the import error as message.
C10_CatalogDegradesToStubs ==
    (gen.kind # "none" /\ ~(env.library /\ env.wrapper))
    => /\ gen.kind = "return"
       /\ \A k \in 1..Len(gen.catalog) : gen.catalog[k][2].kind = "error_tool"
       /\ call.via = "error_tool"
             => /\ ret.kind = "return"
                /\ ret.outcome.status = "fail"
                /\ ret.outcome.message = Get(gen.catalog, call.name).message

\* C11: once the tool cache is populated no step changes it; every
\* generate_all_tools call after that returns a new dict holding the cache's
\* entries, also when dicts returned earlier had entries added, removed or
\* replaced by their holders.
C11_CachePopulatedOnce ==
    [][/\ ~_TOOLS_CACHE.none => _TOOLS_CACHE' = _TOOLS_CACHE
       /\ (~_TOOLS_CACHE.none /\ gen' # gen)
             => gen'.kind = "return" /\ gen'.catalog = _TOOLS_CACHE.tools
       /\ (~_TOOLS_CACHE.none /\ held'.n = held.n + 1)
             => /\ ~held'.is_cache
                /\ held'.tools = AddOthers(_TOOLS_CACHE.tools, PlotNames, 1)]_vars

\* a second agent registered its tools after the first one had added the
\* plotting tools to its dict; the cache holds none of them
C11_Witness ==
    /\ held.n = 2
    /\ ~_TOOLS_CACHE.none
    /\ Has(held.tools, "plot_time_series")
    /\ ~Has(_TOOLS_CACHE.tools, "plot_time_series")
    /\ gen.catalog = _TOOLS_CACHE.tools

\* the value written for record j of n from the result values vs: the value at
\* j when there are n of them, the only value when there is one, null beyond
\* the end and for not-a-number
Expected(vs, j, n) ==
    IF Len(vs) = 1 /\ n # 1 THEN (IF vs[1] = NaN THEN NoneV ELSE vs[1])
    ELSE IF j > Len(vs) \/ vs[j] = NaN THEN NoneV
    ELSE vs[j]

\* the values of the vectorized result as they are to be written: in degrees
\* Celsius when the library gave them in kelvin
Emitted(result) ==
    IF result.unit = "kelvin"
    THEN [j \in 1..Len(result.vals) |->
             IF IsNum(result.vals[j]) THEN Num(result.vals[j][2] - 273) ELSE result.vals[j]]
    ELSE result.vals

\* the records whose column col holds a value that is not null
NonNull(processed, col) ==
    {j \in 1..Len(processed) :
        Has(processed[j].items, col) /\ Get(processed[j].items, col) # NoneV}

RECURSIVE SumOfColumn(_, _, _)
SumOfColumn(processed, col, S) ==
    IF S = {} THEN 0
    ELSE Get(processed[CHOOSE j \in S : TRUE].items, col)[2]
             + SumOfColumn(processed, col, S \ {CHOOSE j \in S : TRUE})

\* C12: when the vectorized cape_cin call returns a pair, the outcome has
\* status success and result_field cape_result, every processed record has a
\* cape_result and a cin_result column holding the reconciled values of the
\* first and of the second array, and stats covers exactly the cape_result
\* values that are not null.
C12_CapeCinWritesBoth ==
    (/\ ComputeReturned
     /\ UnderlyingCall.func_name = "cape_cin"
     /\ lib.vec.kind = "pair")
    => /\ ComputeOutcome.status = "success"
       /\ ComputeOutcome.result_field = "cape_result"
       /\ Len(ComputeOutcome.processed) = Len(UnderlyingCall.records)
       /\ \A j \in 1..Len(UnderlyingCall.records) :
             /\ Has(ComputeOutcome.processed[j].items, "cape_result")
             /\ Has(ComputeOutcome.processed[j].items, "cin_result")
             /\ Get(ComputeOutcome.processed[j].items, "cape_result")
                    = Expected(lib.vec.vals, j, Len(UnderlyingCall.records))
             /\ Get(ComputeOutcome.processed[j].items, "cin_result")
                    = Expected(lib.vec.vals2, j, Len(UnderlyingCall.records))
       /\ ComputeOutcome.stats.count
             = Cardinality(NonNull(ComputeOutcome.processed, "cape_result"))
       /\ ComputeOutcome.stats.sum
             = SumOfColumn(ComputeOutcome.processed, "cape_result",
                           NonNull(ComputeOutcome.processed, "cape_result"))
       /\ ComputeOutcome.stats.keys
             = IF NonNull(ComputeOutcome.processed, "cape_result") = {} THEN {}
               ELSE {"mean", "min", "max", "count"}

\* cape_cin returned two arrays for two records, the first with a not-a-number
C12_Witness ==
    /\ ComputeReturned
    /\ UnderlyingCall.func_name = "cape_cin"
    /\ lib.vec.kind = "pair"
    /\ Len(UnderlyingCall.records) = 2
    /\ Len(lib.vec.vals) = 2
    /\ ComputeOutcome.stats.count = 1

C14_NoKelvinWritten ==
    (ComputeReturned /\ AllMappings(UnderlyingCall.records))
    => /\ (lib.vec.kind \in {"scalar", "array"} /\ lib.vec.unit = "kelvin")
             => \A j \in 1..Len(UnderlyingCall.records) :
                   j <= Len(lib.vec.vals) /\ IsNum(lib.vec.vals[j])
                   => Get(ComputeOutcome.processed[j].items, OutColName(UnderlyingCall))
                          = Num(lib.vec.vals[j][2] - 273)
       /\ trace.fallback
             => \A j \in 1..Len(lib.rows) :
                   (lib.rows[j].kind = "scalar" /\ lib.rows[j].unit = "kelvin")
                   => Get(ComputeOutcome.processed[j].items, ResultColumn)
                          = Num(lib.rows[j].vals[1][2] - 273)

\* the library returned 291 K and 292 K for two records; 18 and 19 were written
C14_Witness ==
    /\ ComputeReturned
    /\ Len(UnderlyingCall.records) = 2
    /\ lib.vec.unit = "kelvin"
    /\ ComputeOutcome.status = "success"
    /\ Get(ComputeOutcome.processed[1].items, OutColName(UnderlyingCall)) = Num(18)
    /\ Get(ComputeOutcome.processed[2].items, OutColName(UnderlyingCall)) = Num(19)

\* alias and column match: case-insensitively, the alias equals the column
\* name, is a substring of it, or contains it
Matches(alias, col) ==
    \/ Lower(alias) = Lower(Chars(col))
    \/ IsSubstring(Lower(alias), Lower(Chars(col)))
    \/ IsSubstring(Lower(Chars(col)), Lower(alias))

\* the aliases of a schema entry that match some column
AliasHits(entry, columns) ==
    {k \in 1..Len(entry.aliases) :
        \E j \in 1..Len(columns) : Matches(entry.aliases[k], columns[j])}

FirstHit(entry, columns) ==
    CHOOSE k \in AliasHits(entry, columns) : \A h \in AliasHits(entry, columns) : k <= h

\* C15 (as the spec states it): build_column_map binds each canonical field to
\* a column that its first matching alias, in declaration order, matches;
\* a field none of whose aliases matches any column is absent; no field is
\* bound twice.
C15_FirstAliasWins ==
    probe.fn = "build_column_map"
    => /\ \A e \in 1..Len(DEFAULT_SCHEMA) :
             IF AliasHits(DEFAULT_SCHEMA[e], probe.columns) = {}
             THEN ~Has(probe.colmap, DEFAULT_SCHEMA[e].canonical)
             ELSE /\ Has(probe.colmap, DEFAULT_SCHEMA[e].canonical)
                  /\ \E j \in 1..Len(probe.columns) :
                        /\ probe.columns[j] = Get(probe.colmap, DEFAULT_SCHEMA[e].canonical)
                        /\ Matches(DEFAULT_SCHEMA[e].aliases[FirstHit(DEFAULT_SCHEMA[e],
                                                                     probe.columns)],
                                   probe.columns[j])
       /\ \A j, k \in 1..Len(probe.colmap) :
             probe.colmap[j][1] = probe.colmap[k][1] => j = k

\* the number of warnings normalize_units gave for a field
WarningsFor(field) ==
    Cardinality({k \in 1..Len(probe.warnings) : probe.warnings[k] = field})

\* C16 (as the spec states it): normalize_units gives a field exactly one
\* warning when the values outside its range are more than 1% of the field's
\* values that are not missing, and none otherwise.
C16_WarnsAboveOnePercentOfPresent ==
    probe.fn = "normalize_units"
    => \A k \in 1..Len(probe.fields) :
          WarningsFor(probe.fields[k]) =
             IF probe.counts[k].bad * 100 > probe.n - probe.counts[k].missing
             THEN 1 ELSE 0

FillRan == probe.fn = "_fill_missing_params"

Given(field) == Has(probe.params, field)

Filled(field) == Has(probe.filled, field)

Added(field) == Filled(field) /\ ~Given(field)

\* the prerequisites of the rules of a target, as the rules find them: the
\* dewpoint comes first and sees the given fields only, the later rules also
\* see what the earlier ones added
Prerequisites(target) ==
    CASE target = "dewpoint" ->
            \/ Given("temperature") /\ Given("relative_humidity")
            \/ Given("temperature") /\ Given("specific_humidity") /\ Given("pressure")
      [] target = "mixing_ratio" ->
            \/ Given("specific_humidity")
            \/ Given("pressure") /\ Given("temperature") /\ Given("relative_humidity")
            \/ Given("pressure") /\ Filled("dewpoint")
      [] target = "pressure" ->
            Given("height") \/ Given("geopotential_height")
      [] target = "parcel_profile" ->
            Filled("pressure") /\ Given("temperature") /\ Filled("dewpoint")

Targets == {"dewpoint", "mixing_ratio", "pressure", "parcel_profile"}

\* C17: _fill_missing_params leaves every field that was present with its
\* value, adds only fields among dewpoint, mixing_ratio, pressure and
\* parcel_profile, and adds one only when it was absent and the prerequisites
\* of a rule for it were present.
C17_FillOnlyAddsDerivable ==
    FillRan
    => /\ \A j \in 1..Len(probe.params) :
             /\ Filled(probe.params[j][1])
             /\ Get(probe.filled, probe.params[j][1]) = probe.params[j][2]
       /\ \A j \in 1..Len(probe.filled) :
             Added(probe.filled[j][1])
             => probe.filled[j][1] \in Targets /\ Prerequisites(probe.filled[j][1])
       /\ \A j, k \in 1..Len(probe.filled) :
             probe.filled[j][1] = probe.filled[k][1] => j = k

\* a dew point and a mixing ratio were given together with what their rules
\* need, and the call added a pressure and a parcel profile
C17_Witness ==
    /\ FillRan
    /\ Given("dewpoint") /\ Given("temperature") /\ Given("relative_humidity")
    /\ Given("mixing_ratio") /\ Given("specific_humidity")
    /\ Added("pressure") /\ Added("parcel_profile")
    /\ probe.fails = {}

\* the called function's own failure for an argument left out or not declared
BindFailures ==
    {Text("TypeError: missing required argument"),
     Text("TypeError: unexpected keyword argument")}

\* the call needs `target`, nothing supplies it, and its derivation raises
Underivable(target) ==
    /\ ComputeRan
    /\ UnderlyingCall.func_name \in LibraryFunctions
    /\ UnderlyingCall.records # <<>>
    /\ AllMappings(UnderlyingCall.records)
    /\ target \in lib.fill
    /\ target \in Required(UnderlyingCall.func_name)
    /\ ~Has(trace.colmap, target)
    /\ ~Has(UnderlyingCall.extra_kwargs.items, target)
    /\ \A j \in 1..Len(UnderlyingCall.records) :
          ~Has(UnderlyingCall.records[j].items, target)

\* C18: _fill_missing_params never raises.  A target whose derivation raises
\* inside the library stays absent, every other rule is still applied when its
\* prerequisites are there, and in a dispatch the field left out shows only
\* as the called function's failure to bind its arguments, reported per
\* record.
C18_FillSwallowsFailures ==
    /\ FillRan
       => \A t \in Targets :
             /\ (t \in probe.fails /\ ~Given(t)) => ~Filled(t)
             /\ (t \notin probe.fails /\ Prerequisites(t)) => Filled(t)
    /\ \A t \in Targets :
          Underivable(t)
          => /\ UnderlyingReturn.kind = "return"
             /\ trace.fallback
             /\ \A j \in 1..Len(UnderlyingCall.records) :
                   /\ Has(ComputeOutcome.processed[j].items, ErrorColumn)
                   /\ Get(ComputeOutcome.processed[j].items, ErrorColumn) \in BindFailures

\* the dew point's derivation raised with its prerequisites given: the dew
\* point stayed absent and the pressure was still derived from the height
C18_Witness ==
    /\ FillRan
    /\ probe.fails = {"dewpoint"}
    /\ Given("temperature") /\ Given("relative_humidity") /\ Given("height")
    /\ ~Filled("dewpoint")
    /\ Added("pressure")

\* a dispatch of cape_cin in which the parcel profile could not be derived
C18_WitnessDispatch == Underivable("parcel_profile") /\ ComputeReturned

\* the keyword arguments of the vectorized call of the dispatch
VectorizedArgs ==
    CallArgs(Signature(UnderlyingCall.func_name), 1,
             _fill_missing_params(prepare_quantities(trace.colmap), lib.fill),
             UnderlyingCall.extra_kwargs)

\* every record has one column, a height, and the caller gives no pressure
HeightOnly ==
    /\ UnderlyingCall.records # <<>>
    /\ \A j \in 1..Len(UnderlyingCall.records) :
          /\ UnderlyingCall.records[j].isdict
          /\ Len(UnderlyingCall.records[j].items) = 1
          /\ UnderlyingCall.records[j].items[1][1] \in {"gaodu", "height"}
    /\ ~Has(UnderlyingCall.extra_kwargs.items, "pressure")

\* C19: for records whose only column is a height column, and no pressure
\* from the caller, the dispatch derives the pressure from the height and the
\* function that declares a pressure parameter is called with a pressure
\* argument.
C19_PressureFromHeight ==
    (/\ ComputeRan
     /\ UnderlyingCall.func_name \in LibraryFunctions
     /\ "pressure" \in Range(Signature(UnderlyingCall.func_name))
     /\ HeightOnly)
    => /\ trace.vec_called
       /\ Has(VectorizedArgs, "pressure")
       /\ Get(VectorizedArgs, "pressure") = Derived("pressure")

CompleteCatalog(catalog) ==
    /\ Range(Keys(catalog)) = Range(METPY_FUNCTIONS_MANUAL) \cup Range(PublicCallables)
    /\ \A j, k \in 1..Len(catalog) : catalog[j][1] = catalog[k][1] => j = k
    /\ \A j \in 1..Len(catalog) : catalog[j][2].name = catalog[j][1]

\* C21: with callers of generate_all_tools interleaved statement by statement
\* and no lock, every caller that returns holds a complete catalog, whether it
\* built one itself or read the cache, and the cache, once set, is never
\* empty again.  (That two callers both build is C21_Witness.)
C21_InterleavedCallersComplete ==
    /\ [](\A t \in 1..MaxCallers :
             callers[t].result.kind = "return" => CompleteCatalog(callers[t].result.catalog))
    /\ [](~_TOOLS_CACHE.none => CompleteCatalog(_TOOLS_CACHE.tools))
    /\ [][~_TOOLS_CACHE.none => ~_TOOLS_CACHE'.none]_vars

\* two callers both found the cache empty on their first call, both built the
\* catalog and stored it, and both returned
C21_Witness ==
    /\ \A t \in 1..2 :
          /\ callers[t].calls = 1
          /\ callers[t].built
          /\ callers[t].pc = "done"
          /\ callers[t].result.kind = "return"
    /\ ~_TOOLS_CACHE.none

\* C22 (as the spec states it): every outcome of compute_with_metpy with
\* status success or partial has a result_field, and every processed record
\* that was given a result has a column of that name.
C22_ResultFieldNamed ==
    (ComputeReturned /\ ComputeOutcome.status \in {"success", "partial"})
    => /\ "result_field" \in ComputeOutcome.keys
       /\ \A j \in 1..Len(ComputeOutcome.processed) :
             ~Has(ComputeOutcome.processed[j].items, ErrorColumn)
             => Has(ComputeOutcome.processed[j].items, ComputeOutcome.result_field)

\* the quantities of the vectorized call after _fill_missing_params
FilledQuantities == _fill_missing_params(prepare_quantities(trace.colmap), lib.fill)

VectorizedCalled ==
    ComputeRan /\ trace.vec_called /\ UnderlyingCall.func_name \in LibraryFunctions

\* C23: call_metpy_function_vectorized passes, for each declared parameter,
\* the quantity of that name if there is one after filling, else the
\* extra_kwargs value of that name if there is one, else nothing; and it
\* passes no argument under a name the function does not declare.
C23_QuantityBeforeExtra ==
    VectorizedCalled
    => /\ \A p \in Range(Signature(UnderlyingCall.func_name)) :
             IF Has(FilledQuantities, p)
             THEN Has(VectorizedArgs, p) /\ Get(VectorizedArgs, p) = Get(FilledQuantities, p)
             ELSE IF Has(UnderlyingCall.extra_kwargs.items, p)
             THEN /\ Has(VectorizedArgs, p)
                  /\ Get(VectorizedArgs, p) = Get(UnderlyingCall.extra_kwargs.items, p)
             ELSE ~Has(VectorizedArgs, p)
       /\ \A j \in 1..Len(VectorizedArgs) :
             VectorizedArgs[j][1] \in Range(Signature(UnderlyingCall.func_name))
       /\ \A j, k \in 1..Len(VectorizedArgs) :
             VectorizedArgs[j][1] = VectorizedArgs[k][1] => j = k

\* relative_humidity is a column of the data and a key of extra_kwargs: the
\* column's quantity was passed; the dew point the filler derived, which the
\* function does not declare, was not
C23_Witness ==
    /\ VectorizedCalled
    /\ UnderlyingCall.func_name = "dewpoint_from_relative_humidity"
    /\ Has(FilledQuantities, "relative_humidity")
    /\ Has(FilledQuantities, "dewpoint")
    /\ Has(UnderlyingCall.extra_kwargs.items, "relative_humidity")
    /\ Get(VectorizedArgs, "relative_humidity") = ColumnQuantity("relative_humidity")
    /\ ~Has(VectorizedArgs, "dewpoint")

\* the fallback loop ran for the records before the first that is no mapping
FallbackRan ==
    ComputeRan /\ trace.fallback /\ UnderlyingCall.func_name \in LibraryFunctions

\* the kwargs the loop collects for record j, before units and filling
CollectedKwargs(j) ==
    RowKwargs(Signature(UnderlyingCall.func_name), 1, UnderlyingCall.records[j].items,
              trace.colmap, UnderlyingCall.extra_kwargs)

\* C24: in the row-wise fallback the argument of each declared parameter is
\* the record's value under the parameter's own name if the record has that
\* key, else the value of the column the column map binds to the parameter if
\* the record has that column, else the extra_kwargs value, else the
\* parameter is left out.
C24_RowArgumentOrder ==
    FallbackRan
    => \A j \in 1..DictPrefix(UnderlyingCall.records) :
          /\ \A p \in Range(Signature(UnderlyingCall.func_name)) :
                IF Has(UnderlyingCall.records[j].items, p)
                THEN /\ Has(CollectedKwargs(j), p)
                     /\ Get(CollectedKwargs(j), p) = Get(UnderlyingCall.records[j].items, p)
                ELSE IF /\ Has(trace.colmap, p)
                        /\ Has(UnderlyingCall.records[j].items, Get(trace.colmap, p))
                THEN /\ Has(CollectedKwargs(j), p)
                     /\ Get(CollectedKwargs(j), p) =
                           Get(UnderlyingCall.records[j].items, Get(trace.colmap, p))
                ELSE IF Has(UnderlyingCall.extra_kwargs.items, p)
                THEN /\ Has(CollectedKwargs(j), p)
                     /\ Get(CollectedKwargs(j), p) = Get(UnderlyingCall.extra_kwargs.items, p)
                ELSE ~Has(CollectedKwargs(j), p)
          /\ \A i, k \in 1..Len(CollectedKwargs(j)) :
                CollectedKwargs(j)[i][1] = CollectedKwargs(j)[k][1] => i = k

\* the record has a temperature key, a column bound to temperature and a
\* column bound to relative_humidity, and extra_kwargs has relative_humidity:
\* the key's value and the column's value were taken
C24_Witness ==
    /\ FallbackRan
    /\ UnderlyingCall.func_name = "dewpoint_from_relative_humidity"
    /\ Has(UnderlyingCall.records[1].items, "temperature")
    /\ Get(trace.colmap, "temperature") = "wendu"
    /\ Has(UnderlyingCall.extra_kwargs.items, "relative_humidity")
    /\ CollectedKwargs(1) = << <<"temperature", Num(1)>>, <<"relative_humidity", Num(70)>> >>

\* the kwargs of func(**kwargs) for record j of the fallback loop
PassedKwargs(j) ==
    RowArgs(UnderlyingCall.records[j].items, UnderlyingCall.func_name, trace.colmap,
            UnderlyingCall.extra_kwargs, lib.fill)

\* C25 (as the claim states it): in the row-wise fallback the function is
\* called only with keyword arguments that are declared parameters of it;
\* what the filler added under other names is not passed.
C25_RowPassesDeclaredOnly ==
    FallbackRan
    => \A j \in 1..DictPrefix(UnderlyingCall.records) :
          \A k \in 1..Len(PassedKwargs(j)) :
              PassedKwargs(j)[k][1] \in Range(Signature(UnderlyingCall.func_name))

\* C26 (as the claim states it): in every processed record returned by
\* compute_with_metpy each column of the input record it was built from keeps
\* its value; result and error columns never replace a column of the input.
C26_InputColumnsKeepValues ==
    (ComputeReturned /\ "processed" \in ComputeOutcome.keys)
    => /\ Len(ComputeOutcome.processed) \in {0, Len(UnderlyingCall.records)}
       /\ \A j \in 1..Len(ComputeOutcome.processed) :
             \A k \in 1..Len(UnderlyingCall.records[j].items) :
                 /\ Has(ComputeOutcome.processed[j].items,
                        UnderlyingCall.records[j].items[k][1])
                 /\ Get(ComputeOutcome.processed[j].items,
                        UnderlyingCall.records[j].items[k][1])
                       = UnderlyingCall.records[j].items[k][2]

\* C27 (as the claim states it): when no derivation raises, a second pass of
\* _fill_missing_params over the dict it has filled adds nothing.
C27_SecondFillAddsNothing ==
    (FillRan /\ probe.again /\ probe.fails = {})
    => probe.filled = probe.params

\* C28 (as the claim states it): the map build_column_map returns binds no
\* column to two canonical fields, and every bound column is one of the
\* given columns.
C28_ColumnMapInjective ==
    probe.fn = "build_column_map"
    => /\ \A j, k \in 1..Len(probe.colmap) :
             probe.colmap[j][2] = probe.colmap[k][2] => j = k
       /\ \A j \in 1..Len(probe.colmap) : probe.colmap[j][2] \in Range(probe.columns)

C30_EmptyRecordsFail ==
    (ComputeRan /\ UnderlyingCall.records = <<>>)
    => /\ UnderlyingReturn.kind = "return"
       /\ ComputeOutcome.status = "fail"
       /\ "processed" \in ComputeOutcome.keys
       /\ ComputeOutcome.processed = <<>>
       /\ ~trace.resolved /\ ~trace.looked_up /\ ~trace.vec_called /\ ~trace.fallback
       /\ lib = NoLib

\* a direct call with no records for a name the library does not have
C30_Witness ==
    /\ ComputeReturned
    /\ call.via = "compute"
    /\ call.records = <<>>
    /\ call.func_name = "not_a_real_function"
    /\ ComputeOutcome.status = "fail"

====
